---- MODULE Spec2Model ----
(***************************************************************************)
(* Model of src/streamlit_app_gemini.py: the retrieval / funnel /          *)
(* bibliography / generation / citation-enforcement pipeline of main().    *)
(* Text is a sequence of one-character strings.                            *)
(***************************************************************************)
EXTENDS Integers, Sequences, FiniteSets, TLC

VARIABLES
  \* enforce_citation_integrity exercised as a pure function
  text, n_sources, fixed, fixed2, epc,
  \* inputs of one run of main(): the remote service behind the backend,
  \* the arguments, whether SERPAPI_KEY is set
  remote, topic, max_sources, years, backend, serpapi_key,
  \* control state of main(): position, uncaught exception if any
  pc, raised,
  \* openalex_search locals
  params_filter, out, cursor, page_no, requests, failed_page,
  \* funnel state
  works, idx, seen_titles, clean, doi_ok, prisma,
  title_keep, abs_keep, sources,
  \* bibliography and generation
  bibliography, sources_bulleted,
  attempt, outcome, raw_sections, sections, context,
  \* the dedup stage and the validity check exercised on their own
  d_in, head1, head2, d_out1, d_out2, verify_flag, verdicts, head_requests,
  dpc

evars == <<text, n_sources, fixed, fixed2, epc>>

inputs == <<remote, topic, max_sources, years, backend, serpapi_key>>

mvars == <<inputs, params_filter, pc, raised, out, cursor, page_no,
           requests, failed_page, works, idx, seen_titles, clean, doi_ok, prisma,
           title_keep, abs_keep, sources, bibliography, sources_bulleted,
           attempt, outcome, raw_sections, sections, context>>

dvars == <<d_in, head1, head2, d_out1, d_out2, verify_flag, verdicts,
           head_requests, dpc>>

vars == <<evars, mvars, dvars>>

\* ------------------------------------------------------------------ bounds
MaxTextLen == 6
MaxN == 2
MaxWorks == 2

\* ------------------------------------------------------- text primitives
Digits == {"0", "1", "2", "3", "4", "5", "6", "7", "8", "9"}

DigitVal(c) ==
  CASE c = "0" -> 0 [] c = "1" -> 1 [] c = "2" -> 2 [] c = "3" -> 3
    [] c = "4" -> 4 [] c = "5" -> 5 [] c = "6" -> 6 [] c = "7" -> 7
    [] c = "8" -> 8 [] c = "9" -> 9

DigitChar(d) ==
  CASE d = 0 -> "0" [] d = 1 -> "1" [] d = 2 -> "2" [] d = 3 -> "3"
    [] d = 4 -> "4" [] d = 5 -> "5" [] d = 6 -> "6" [] d = 7 -> "7"
    [] d = 8 -> "8" [] d = 9 -> "9"

\* int(m.group(1)): decimal value of a run of digits, leading zeros allowed
RECURSIVE ParseInt(_)
ParseInt(ds) ==
  IF ds = <<>> THEN 0
  ELSE ParseInt(SubSeq(ds, 1, Len(ds) - 1)) * 10 + DigitVal(ds[Len(ds)])

\* f"{bad}": decimal rendering of a non-negative int, no leading zeros
RECURSIVE IntToStr(_)
IntToStr(n) ==
  IF n < 10 THEN <<DigitChar(n)>>
  ELSE IntToStr(n \div 10) \o <<DigitChar(n % 10)>>

\* matches of r"\[(\d+)\]": pairs <<i, j>> with t[i] = "[", t[j] = "]" and a
\* non-empty run of digits in between
MarkerSpans(t) ==
  { ij \in (1..Len(t)) \X (1..Len(t)) :
      /\ ij[2] >= ij[1] + 2
      /\ t[ij[1]] = "["
      /\ t[ij[2]] = "]"
      /\ \A k \in (ij[1] + 1)..(ij[2] - 1) : t[k] \in Digits }

\* set(int(m.group(1)) for m in re.finditer(...))
MarkerInts(t) ==
  { ParseInt(SubSeq(t, ij[1] + 1, ij[2] - 1)) : ij \in MarkerSpans(t) }

\* re.sub(<literal pat>, "", t): one left-to-right pass, non-overlapping
RECURSIVE ReSubLiteral(_, _)
ReSubLiteral(t, pat) ==
  IF Len(t) < Len(pat) THEN t
  ELSE IF SubSeq(t, 1, Len(pat)) = pat
       THEN ReSubLiteral(SubSeq(t, Len(pat) + 1, Len(t)), pat)
       ELSE <<t[1]>> \o ReSubLiteral(Tail(t), pat)

SetMax(S) == CHOOSE x \in S : \A y \in S : y <= x

\* for bad in sorted(invalid, reverse=True): fixed = re.sub(rf"\[{bad}\]", "", fixed)
RECURSIVE StripInvalid(_, _)
StripInvalid(t, invalid) ==
  IF invalid = {} THEN t
  ELSE LET bad == SetMax(invalid)
       IN StripInvalid(ReSubLiteral(t, <<"[">> \o IntToStr(bad) \o <<"]">>),
                       invalid \ {bad})

\* an enforcer that forgets the lower bound of line 373
enforce_citation_integrity_upper_only(t, n) ==
  LET used == MarkerInts(t)
      invalid == { i \in used : i > n }
  IN StripInvalid(t, invalid)

enforce_citation_integrity(t, n) ==
  LET used == MarkerInts(t)
      invalid == { i \in used : i < 1 \/ i > n }
  IN StripInvalid(t, invalid)

\* -------------------------------------------------- strings of the records
Whitespace == {" ", "\n"}

UpperCase ==
  <<"A", "B", "C", "D", "E", "F", "G", "H", "I", "J", "K", "L", "M", "N",
    "O", "P", "Q", "R", "S", "T", "U", "V", "W", "X", "Y", "Z">>

LowerCase ==
  <<"a", "b", "c", "d", "e", "f", "g", "h", "i", "j", "k", "l", "m", "n",
    "o", "p", "q", "r", "s", "t", "u", "v", "w", "x", "y", "z">>

LowerChar(c) ==
  IF \E i \in 1..Len(UpperCase) : UpperCase[i] = c
  THEN LowerCase[CHOOSE i \in 1..Len(UpperCase) : UpperCase[i] = c]
  ELSE c

\* str.lower()
Lower(s) == [i \in 1..Len(s) |-> LowerChar(s[i])]

\* str.strip()
RECURSIVE LStrip(_)
LStrip(s) ==
  IF s # <<>> /\ s[1] \in Whitespace THEN LStrip(Tail(s)) ELSE s

RECURSIVE RStrip(_)
RStrip(s) ==
  IF s # <<>> /\ s[Len(s)] \in Whitespace
  THEN RStrip(SubSeq(s, 1, Len(s) - 1)) ELSE s

Strip(s) == LStrip(RStrip(s))

\* re.sub(r'\s+', ' ', s): every maximal run of whitespace becomes one space
RECURSIVE CollapseWs(_)
CollapseWs(s) ==
  IF s = <<>> THEN <<>>
  ELSE IF s[1] \in Whitespace
       THEN <<" ">> \o CollapseWs(LStrip(s))
       ELSE <<s[1]>> \o CollapseWs(Tail(s))

\* clean_text(s); None is the empty string
clean_text(s) == Strip(CollapseWs(s))

\* str(n) for any int
StrOfInt(n) == IF n < 0 THEN <<"-">> \o IntToStr(0 - n) ELSE IntToStr(n)

\* an absent (None) year; a year y is <<y>>
None == <<>>

\* the body of an int literal: digits, single underscores between digits
IntBodyOk(b) ==
  /\ b # <<>>
  /\ b[1] \in Digits
  /\ b[Len(b)] \in Digits
  /\ \A i \in 1..Len(b) : b[i] \in Digits \cup {"_"}
  /\ \A i \in 1..(Len(b) - 1) : ~(b[i] = "_" /\ b[i + 1] = "_")

IntBody(s) ==
  LET t == Strip(s)
  IN IF t # <<>> /\ t[1] \in {"+", "-"} THEN Tail(t) ELSE t

\* int(s) does not raise
PyIntOk(s) == IntBodyOk(IntBody(s))

\* int(s) for a str s it accepts
PyIntVal(s) ==
  LET t == Strip(s)
      IsDigit(c) == c \in Digits
      v == ParseInt(SelectSeq(IntBody(s), IsDigit))
  IN IF t[1] = "-" THEN 0 - v ELSE v

\* year_from_date(s), given str(s) (empty for a falsy s): int(str(s)[:4]),
\* None when s is falsy or int raises
year_from_date(s) ==
  LET head == SubSeq(s, 1, IF Len(s) < 4 THEN Len(s) ELSE 4)
  IN IF s = <<>> THEN None
     ELSE IF PyIntOk(head) THEN <<PyIntVal(head)>> ELSE None

\* tok in t
Contains(t, tok) ==
  \E i \in 0..(Len(t) - Len(tok)) : SubSeq(t, i + 1, i + Len(tok)) = tok

\* the characters used here, in code point order
CodeOrder ==
  <<"\n", " ", "(", ")", "+", ",", "-", ".", "/">>
    \o <<"0", "1", "2", "3", "4", "5", "6", "7", "8", "9">>
    \o <<":", ";">> \o UpperCase \o <<"[", "]", "_">> \o LowerCase

Ord(c) == CHOOSE i \in 1..Len(CodeOrder) : CodeOrder[i] = c

\* a < b for two str
RECURSIVE StrLess(_, _)
StrLess(a, b) ==
  IF b = <<>> THEN FALSE
  ELSE IF a = <<>> THEN TRUE
  ELSE IF a[1] = b[1] THEN StrLess(Tail(a), Tail(b))
  ELSE Ord(a[1]) < Ord(b[1])

\* p < q for two (position, word) tuples
TupleLess(p, q) == p[1] < q[1] \/ (p[1] = q[1] /\ StrLess(p[2], q[2]))

\* positions.sort(); " ".join(w for _, w in positions), positions being the
\* (position, word) tuples of ps: tuple order, a space between any two words
RECURSIVE JoinSorted(_)
JoinSorted(ps) ==
  IF ps = {} THEN <<>>
  ELSE LET p == CHOOSE q \in ps : \A r \in ps \ {q} : TupleLess(q, r)
       IN IF ps = {p} THEN p[2]
          ELSE p[2] \o <<" ">> \o JoinSorted(ps \ {p})

\* reconstruct_openalex_abstract(inv): inv is the set of (position, word)
\* pairs of the inverted index, {} when it is absent or empty

reconstruct_openalex_abstract(inv) == JoinSorted(inv)

DoiPrefixHttps ==
  <<"h","t","t","p","s",":","/","/","d","o","i",".","o","r","g","/">>
DoiPrefixHttp ==
  <<"h","t","t","p",":","/","/","d","o","i",".","o","r","g","/">>

\* doi_url(doi) for a non-empty doi
doi_url(doi) ==
  DoiPrefixHttps \o
    Strip(ReSubLiteral(ReSubLiteral(Lower(doi), DoiPrefixHttps),
                       DoiPrefixHttp))

has_valid_url(d) ==
  \/ d.oa_pdf_url # <<>>
  \/ d.url # <<>>
  \/ d.landing_page # <<>>

\* ------------------------------------------------------- the remote index
\* Raw OpenAlex items.  An absent (None) string field is the empty string,
\* an absent publication_year is 0: the code tests these fields for truth
\* only.  venue is host_venue.display_name, authors the display names of
\* the authorships.
RawItem(id, title, abstract, inv, doi, landing, pdf, yr, date, venue, authors) ==
  [id |-> id, title |-> title, abstract |-> abstract,
   abstract_inverted_index |-> inv, doi |-> doi,
   landing_page_url |-> landing, pdf_url |-> pdf,
   publication_year |-> yr, publication_date |-> date,
   venue |-> venue, authors |-> authors]

Doi1 == DoiPrefixHttps \o <<"1", "0", ".", "1", "/", "A">>
Doi5 == <<"1", "0", ".", "5", "/", "b">>

Pool ==
  { \* DOI only: valid exactly when the resolver answers; a year of more
    \* than four digits
    RawItem(<<"W", "1">>, <<"G", "r", "e">>, <<>>, {}, Doi1, <<>>, <<>>,
            20205, <<>>, <<"V", "1">>, << <<"A", "n", "n">>, <<"B", "o">> >>),
    \* same title as W1 up to case and whitespace, valid through its URL;
    \* no year, a date that is no number
    RawItem(<<"W", "2">>, <<" ", "g", "R", "E", "\n">>, <<"x", "y", "z">>, {},
            <<>>, <<"u", "2">>, <<>>, 0, <<"n", "/", "a">>, <<>>, <<>>),
    \* no title; the year only in the date
    RawItem(<<"W", "3">>, <<>>, <<>>, {}, <<>>, <<"u", "3">>, <<>>, 0,
            <<"2", "0", "2", "1", "-", "0", "5", "-", "0", "1">>,
            <<"V", "3">>, << <<"C", "y">> >>),
    \* neither DOI nor URL
    RawItem(<<"W", "4">>, <<"X", "y", "z">>, <<>>, {}, <<>>, <<>>, <<>>, 2019,
            <<>>, <<"V", "1">>, << <<>>, <<"D", "i">> >>),
    \* DOI and PDF, abstract only as an inverted index with two words at
    \* one position and an empty word
    RawItem(<<"W", "5">>, <<"X", "y", " ", " ", "g", "r", "e">>, <<>>,
            { <<1, <<"G", "r", "e">>>>, <<0, <<"b">>>>, <<0, <<"a", "a">>>>,
              <<2, <<>>>> },
            Doi5, <<>>, <<"p", "5">>, 2022, <<>>, <<>>, << <<"E", "d">> >>),
    \* URL only and ending in a space, title off topic, no abstract, neither
    \* year nor date
    RawItem(<<"W", "6">>, <<"A", "b", "c">>, <<>>, {}, <<>>, <<"u", "6", " ">>, <<>>,
            0, <<>>, <<"V", "6">>, <<>>) }

SmallLists == UNION { [1..k -> Pool] : k \in 0..MaxWorks }

\* a large result set: m on-topic and k off-topic records, all with distinct
\* titles and a landing page
BulkItem(stem, i) ==
  RawItem(<<"B">> \o IntToStr(i), stem \o IntToStr(i), <<>>, {}, <<>>, <<"u">>, <<>>,
          2020, <<>>, <<"V">>, <<>>)

Bulk(m, k) ==
  [i \in 1..(m + k) |->
     IF i <= m THEN BulkItem(<<"g", "r", "e">>, i)
     ELSE BulkItem(<<"x", "y", "z">>, i)]

BulkShapes == { <<10, 2>>, <<10, 24>> }

BulkLists == { Bulk(sh[1], sh[2]) : sh \in BulkShapes }

\* per_page passed by main()
PerPage == 50

PageSizes == {1, PerPage}

\* the server's pages for a result list
RECURSIVE Chunk(_, _)
Chunk(w, ps) ==
  IF Len(w) = 0 THEN <<>>
  ELSE IF Len(w) <= ps THEN <<w>>
       ELSE <<SubSeq(w, 1, ps)>> \o Chunk(SubSeq(w, ps + 1, Len(w)), ps)

Remotes == { Chunk(w, ps) : w \in SmallLists \cup BulkLists, ps \in PageSizes }

Topics == { <<"a", "b", ",", " ", "G", "r", "e">>, <<"a", "b", ";", "x">> }

MaxSourcesValues == {-1, 1, 60}

\* cursors: <<"*">> is the initial cursor, <<>> a missing next_cursor,
\* <<"c", k>> the token the server issues for its page k
InitialCursor == <<"*">>
NoCursor == <<>>

PageOfCursor(c) == IF c = InitialCursor THEN 1 ELSE c[2]

ServerResults(rem, c) ==
  IF PageOfCursor(c) <= Len(rem) THEN rem[PageOfCursor(c)] ELSE <<>>

ServerNextCursor(rem, c) ==
  IF PageOfCursor(c) < Len(rem) THEN <<"c", PageOfCursor(c) + 1>> ELSE NoCursor

\* --------------------------------------------------------- openalex_search
\* year-range strings: start-end, empty, without hyphen, with two hyphens,
\* with non-numeric parts
PlainYears == <<"1", "9", "-", "2", "0">>

YearRanges ==
  { PlainYears, <<>>, <<"2", "0">>,
    <<"1", "-", "2", "-", "3">>, <<"a", "-", "b">> }

\* s.split(sep) for a one-character sep, cur being the piece under construction
RECURSIVE StrSplit(_, _, _)
StrSplit(s, sep, cur) ==
  IF s = <<>> THEN <<cur>>
  ELSE IF s[1] = sep THEN <<cur>> \o StrSplit(Tail(s), sep, <<>>)
       ELSE StrSplit(Tail(s), sep, Append(cur, s[1]))

\* start, end = years.split("-") raises ValueError unless there are two parts
unpack_raises(yrs) == yrs # <<>> /\ Len(StrSplit(yrs, "-", <<>>)) # 2

TypeFilter == [key |-> "type", value |-> <<"journal-article">>]

\* lines 117-121: the entries of params["filter"]
build_filter(yrs) ==
  IF yrs # <<>>
  THEN LET parts == StrSplit(yrs, "-", <<>>)
       IN <<[key |-> "from_publication_date",
             value |-> parts[1] \o <<"-", "0", "1", "-", "0", "1">>],
            [key |-> "to_publication_date",
             value |-> parts[2] \o <<"-", "1", "2", "-", "3", "1">>],
            TypeFilter>>
  ELSE <<TypeFilter>>

\* max_pages passed by main()
MainMaxPages == 4

\* a loop bound that lets one more page through
pagination_done_off_by_one(next, fetched) ==
  next = NoCursor \/ fetched > MainMaxPages

\* the loop of line 126 ends after the request numbered fetched: range(max_pages)
\* is exhausted, or lines 160-162 found no next_cursor
pagination_done(next, fetched) ==
  next = NoCursor \/ fetched >= MainMaxPages

\* the dict appended to out for one item of data["results"]; line 141 takes
\* the year from publication_year or, when that is falsy, publication_date
NormalizeItem(it) ==
  [id |-> it.id,
   title |-> clean_text(it.title),
   abstract |-> IF it.abstract # <<>> THEN clean_text(it.abstract)
                ELSE reconstruct_openalex_abstract(it.abstract_inverted_index),
   doi |-> it.doi,
   url |-> it.landing_page_url,
   oa_pdf_url |-> it.pdf_url,
   landing_page |-> <<>>,
   year |-> year_from_date(IF it.publication_year # 0
                           THEN StrOfInt(it.publication_year)
                           ELSE it.publication_date),
   venue |-> it.venue,
   authors |-> LET NonEmpty(a) == a # <<>> IN SelectSeq(it.authors, NonEmpty)]

NormalizePage(items) == [i \in 1..Len(items) |-> NormalizeItem(items[i])]

\* -------------------------------------------------- serpapi_scholar_search
\* Raw organic results of the Scholar service.  pub_year, summary and
\* author_names are the year, summary and authors[].name of
\* publication_info; an absent field is the empty string.
ScholarItem(result_id, title, pub_year, summary, author_names, link, snippet) ==
  [result_id |-> result_id, title |-> title, pub_year |-> pub_year,
   summary |-> summary, author_names |-> author_names, link |-> link,
   snippet |-> snippet]

ScholarPool ==
  { \* year in the summary, DOI in the snippet, a link
    ScholarItem(<<"S", "1">>, <<"G", "r", "e">>, <<>>,
                <<"B", "o", " ", "-", " ", "V", ",", " ", " ", "2", "0", "1", "9">>,
                << <<"B", "o">> >>, <<"l", "1">>,
                <<"x", " ", "1", "0", ".", "1", "2", "3", "4", "/", "A", ".", " ", "y">>),
    \* same title up to case, a year string without year, a blank author
    \* name, no link, a snippet whose DOI prefix is too short
    ScholarItem(<<>>, <<" ", "g", "R", "E">>, <<"c", "1", "8", "9", "9">>, <<>>,
                << <<" ">>, <<>> >>, <<>>,
                <<"1", "0", ".", "1", "2", "/", "x">>) }

ScholarLists == UNION { [1..k -> ScholarPool] : k \in 0..MaxWorks }

\* re.search(r"(19|20)\d{2}", y) matches at i
YearMatchAt(y, i) ==
  /\ i + 3 <= Len(y)
  /\ SubSeq(y, i, i + 1) \in { <<"1", "9">>, <<"2", "0">> }
  /\ y[i + 2] \in Digits
  /\ y[i + 3] \in Digits

\* lines 192-194 for a str y: the int of the leftmost match, else None
scholar_year(y) ==
  IF \E i \in 1..Len(y) : YearMatchAt(y, i)
  THEN LET i == CHOOSE i \in 1..Len(y) :
                  YearMatchAt(y, i) /\ \A j \in 1..(i - 1) : ~YearMatchAt(y, j)
       IN <<ParseInt(SubSeq(y, i, i + 3))>>
  ELSE None

\* [-._;()/:A-Z0-9] under re.I
DoiChars ==
  {"-", ".", "_", ";", "(", ")", "/", ":"} \cup Digits
    \cup { UpperCase[i] : i \in 1..Len(UpperCase) }
    \cup { LowerCase[i] : i \in 1..Len(LowerCase) }

\* length of the longest run of characters of C in s from position i on
RECURSIVE RunLen(_, _, _)
RunLen(s, i, C) ==
  IF i <= Len(s) /\ s[i] \in C THEN 1 + RunLen(s, i + 1, C) ELSE 0

\* r"10\.\d{4,9}/[-._;()/:A-Z0-9]+" matches at i: the digits run up to the
\* slash, so their number is the length of the run
DoiMatchAt(s, i) ==
  LET d == RunLen(s, i + 3, Digits)
  IN /\ i + 2 <= Len(s)
     /\ SubSeq(s, i, i + 2) = <<"1", "0", ".">>
     /\ d >= 4
     /\ d <= 9
     /\ i + 3 + d <= Len(s)
     /\ s[i + 3 + d] = "/"
     /\ RunLen(s, i + 4 + d, DoiChars) >= 1

\* lines 197-198: mdoi.group(0) of the leftmost match, else None
scholar_doi(s) ==
  IF \E i \in 1..Len(s) : DoiMatchAt(s, i)
  THEN LET i == CHOOSE i \in 1..Len(s) :
                  DoiMatchAt(s, i) /\ \A j \in 1..(i - 1) : ~DoiMatchAt(s, j)
           d == RunLen(s, i + 3, Digits)
       IN SubSeq(s, i, i + 3 + d + RunLen(s, i + 4 + d, DoiChars))
  ELSE <<>>

\* lines 187-212: the dict appended to out for one organic result
NormalizeScholarItem(item) ==
  [id |-> IF item.result_id # <<>> THEN item.result_id ELSE item.link,
   title |-> clean_text(item.title),
   abstract |-> <<>>,
   doi |-> scholar_doi(clean_text(item.snippet)),
   url |-> item.link,
   oa_pdf_url |-> <<>>,
   landing_page |-> <<>>,
   year |-> scholar_year(IF item.pub_year # <<>> THEN item.pub_year
                         ELSE item.summary),
   venue |-> clean_text(item.summary),
   authors |-> LET Named(a) == a # <<>>
                   names == SelectSeq(item.author_names, Named)
               IN [i \in 1..Len(names) |-> clean_text(names[i])]]

\* serpapi_scholar_search: nothing without SERPAPI_KEY, else one dict per
\* organic result of the service's answer
serpapi_scholar_search(key, organic_results) ==
  IF ~key THEN <<>>
  ELSE [i \in 1..Len(organic_results) |->
          NormalizeScholarItem(organic_results[i])]

\* ------------------------------------------------------------ the funnel
\* verify_doi(doi): head_ok is the resolver's answer to the HEAD request
\* (status below 400, no exception)
verify_doi(doi, head_ok) == doi # <<>> /\ head_ok

\* is_ok with the resolver's answer ignored: any DOI string is accepted
is_ok_unverified(w, head_ok) ==
  IF w.doi # <<>> THEN TRUE ELSE has_valid_url(w)

\* lines 417-422: the validity verdict for one record
is_ok(w, head_ok) ==
  IF w.doi # <<>> /\ verify_doi(w.doi, head_ok) THEN TRUE
  ELSE has_valid_url(w)

\* title_key without lower()
title_key_case_sensitive(w) == Strip(w.title)

\* the dedup key of line 412
title_key(w) == Lower(Strip(w.title))

Seps == {";", ","} \cup Whitespace

\* re.split(r"[;,\s]\s*", s), cur being the piece under construction
RECURSIVE ReSplit(_, _)
ReSplit(s, cur) ==
  IF s = <<>> THEN <<cur>>
  ELSE IF s[1] \in Seps
       THEN <<cur>> \o ReSplit(LStrip(Tail(s)), <<>>)
       ELSE ReSplit(Tail(s), Append(cur, s[1]))

topic_tokens(tp) ==
  LET Long(t) == Len(Strip(t)) > 2
      pieces == SelectSeq(ReSplit(tp, <<>>), Long)
  IN [i \in 1..Len(pieces) |-> Lower(Strip(pieces[i]))]

AnyTokenIn(toks, t) == \E i \in 1..Len(toks) : Contains(t, toks[i])

\* the literal 10 of line 440
HatchMin == 10

PyMax(a, b) == IF a >= b THEN a ELSE b

\* title_screen whose escape hatch restores the raw list instead of clean
title_screen_restores_works(cl, toks) ==
  LET Hit(w) == AnyTokenIn(toks, Lower(w.title))
      keep == SelectSeq(cl, Hit)
  IN IF Len(keep) < PyMax(HatchMin, (3 * Len(cl)) \div 10) THEN works ELSE keep

\* lines 434-441
title_screen(cl, toks) ==
  LET Hit(w) == AnyTokenIn(toks, Lower(w.title))
      keep == SelectSeq(cl, Hit)
  IN IF Len(keep) < PyMax(HatchMin, (3 * Len(cl)) \div 10) THEN cl ELSE keep

\* an abstract screen that drops the records without abstract
abstract_screen_drops_missing(tk, toks) ==
  LET Keep(w) == AnyTokenIn(toks, Lower(w.abstract))
  IN SelectSeq(tk, Keep)

\* lines 445-452
abstract_screen(tk, toks) ==
  LET Keep(w) == LET ab == Lower(w.abstract)
                 IN IF ab # <<>> THEN AnyTokenIn(toks, ab) ELSE TRUE
  IN SelectSeq(tk, Keep)

\* s[:m]
PySliceTo(s, m) ==
  IF m >= 0 THEN SubSeq(s, 1, IF m < Len(s) THEN m ELSE Len(s))
  ELSE SubSeq(s, 1, Len(s) + m)

\* ------------------------------------------------------------ bibliography
\* every element of the authors list is a plain string here, and is kept
normalize_author_list(authors) == [i \in 1..Len(authors) |-> authors[i]]

\* a link that prefers the URL to the DOI
render_link_prefers_url(src) ==
  IF src.url # <<>> THEN src.url
  ELSE IF src.oa_pdf_url # <<>> THEN src.oa_pdf_url
  ELSE doi_url(src.doi)

\* lines 365-366 and 351-352
render_link(src) ==
  IF src.doi # <<>> THEN doi_url(src.doi)
  ELSE IF src.url # <<>> THEN src.url
  ELSE src.oa_pdf_url

\* the parts of one reference string, in the order of the f-string
make_bibliography(srcs) ==
  [i \in 1..Len(srcs) |->
     LET src == srcs[i]
         auths == normalize_author_list(src.authors)
     IN [auth_str |-> IF auths # <<>> THEN auths ELSE <<<<"N", "/", "A">>>>,
         year |-> IF src.year # None /\ src.year[1] # 0
                  THEN StrOfInt(src.year[1])
                  ELSE <<"n", ".", "d", ".">>,
         title |-> IF src.title # <<>> THEN src.title
                   ELSE <<"U", "n", "t", "i", "t", "l", "e", "d">>,
         ven |-> src.venue,
         link |-> render_link(src)]]

\* sep.join(strs)
RECURSIVE JoinWith(_, _)
JoinWith(strs, sep) ==
  IF strs = <<>> THEN <<>>
  ELSE IF Len(strs) = 1 THEN strs[1]
  ELSE strs[1] \o sep \o JoinWith(Tail(strs), sep)

\* lines 347-353: the values formatted into the line labelled i, and the
\* line itself, f"[{i}] {auths} ({year}). {title}. {ven}. {link}".strip()
bullet(i, src) ==
  LET auths == normalize_author_list(src.authors)
      year == IF src.year # None THEN StrOfInt(src.year[1])
              ELSE <<"N", "o", "n", "e">>
      title == IF src.title # <<>> THEN src.title
               ELSE <<"(", "n", "o", " ", "t", "i", "t", "l", "e", ")">>
      ven == src.venue
      link == render_link(src)
  IN [label |-> i, auths |-> auths, year |-> year, title |-> title,
      ven |-> ven, link |-> link,
      line |-> Strip(<<"[">> \o StrOfInt(i) \o <<"]", " ">>
                       \o JoinWith(auths, <<",", " ">>)
                       \o <<" ", "(">> \o year \o <<")", ".", " ">>
                       \o title \o <<".", " ">> \o ven \o <<".", " ">>
                       \o link)]

\* make_sources_bulleted with enumerate(sources) left at its default start
make_sources_bulleted_from_zero(srcs) ==
  [i \in 1..Len(srcs) |-> bullet(i - 1, srcs[i])]

\* the lines of the citable-sources list, which the code joins with "\n"
make_sources_bulleted(srcs) ==
  [i \in 1..Len(srcs) |-> bullet(i, srcs[i])]

\* -------------------------------------------------------------- generation
\* stop_after_attempt(5)
MaxAttempts == 5

\* a stop condition that allows a sixth attempt
stop_after_six(attempt_number) == attempt_number >= MaxAttempts + 1

stop_after_attempt(attempt_number) == attempt_number >= MaxAttempts

\* what one call of the generation service can raise: an error of the
\* service (a subclass of Exception), or an exception that derives from
\* BaseException only
NonExceptions == {"KeyboardInterrupt"}

ServiceExceptions == {"ServiceError"} \cup NonExceptions

\* retry_if_exception_type(Exception) on the outcome of an attempt, "returned"
\* or the name of the exception raised: retry exactly when the attempt
\* raised an instance of Exception
retry_if_exception_type(result) ==
  result # "returned" /\ result \notin NonExceptions

\* the write_section calls of lines 495-500, in order
SectionTitles ==
  <<"intro", "methods", "results", "discussion", "conclusion", "limitations">>

\* the text the generation service returns: two markers that are in range
\* for bibliographies of length 1 and 2, and one beyond any bibliography here
GenTexts ==
  { <<"[", "1", "]", "a", "[", "2", "]", "[", "1", "3", "]">> }

\* write_section enforcing against one index too many
write_section_off_by_one(txt, bib) ==
  enforce_citation_integrity(txt, Len(bib) + 1)

\* lines 491-492 of write_section, given the text generate returned
write_section(txt, bib) == enforce_citation_integrity(txt, Len(bib))

\* ------------------------------------------------------ one run of main()
NoCounters == [k \in {} |-> 0]

MainLocalsInit ==
  /\ raised = ""
  /\ params_filter = <<>>
  /\ out = <<>>
  /\ cursor = InitialCursor
  /\ page_no = 0
  /\ requests = <<>>
  /\ failed_page = 0
  /\ works = <<>>
  /\ idx = 1
  /\ seen_titles = {}
  /\ clean = <<>>
  /\ doi_ok = {}
  /\ prisma = NoCounters
  /\ title_keep = <<>>
  /\ abs_keep = <<>>
  /\ sources = <<>>
  /\ bibliography = <<>>
  /\ sources_bulleted = <<>>
  /\ attempt = 0
  /\ outcome = "none"
  /\ raw_sections = <<>>
  /\ sections = <<>>
  /\ context = <<>>

\* main() is not running
MainIdle ==
  /\ remote = <<>>
  /\ topic = <<>>
  /\ max_sources = 0
  /\ years = <<>>
  /\ backend = "openalex"
  /\ serpapi_key = FALSE
  /\ pc = "idle"
  /\ MainLocalsInit

EnforceIdle ==
  /\ text = <<>>
  /\ n_sources = 0
  /\ fixed = <<>>
  /\ fixed2 = <<>>
  /\ epc = "idle"

DedupIdle ==
  /\ d_in = <<>>
  /\ head1 = <<>>
  /\ head2 = <<>>
  /\ d_out1 = <<>>
  /\ d_out2 = <<>>
  /\ verify_flag = TRUE
  /\ verdicts = <<>>
  /\ head_requests = 0
  /\ dpc = "idle"

Backends == {"openalex", "scholar"}

\* the indexes against which every year range is tried
YearProbeRemotes == { Chunk(w, PerPage) : w \in BulkLists } \cup { <<>> }

\* remote is the index's pages for --backend openalex and the service's
\* organic results for --backend scholar
Init ==
  /\ backend \in Backends
  /\ years \in YearRanges
  /\ IF backend = "openalex"
     THEN /\ remote \in (IF years = PlainYears THEN Remotes
                         ELSE YearProbeRemotes)
          /\ serpapi_key = FALSE
     ELSE /\ remote \in ScholarLists
          /\ serpapi_key \in BOOLEAN
  /\ topic \in Topics
  /\ max_sources \in MaxSourcesValues
  /\ pc = "start"
  /\ MainLocalsInit
  /\ EnforceIdle
  /\ DedupIdle

\* lines 108-122: openalex_search builds its query; a year range that does
\* not split in two raises ValueError, which nothing catches
BuildQuery ==
  /\ pc = "start"
  /\ backend = "openalex"
  /\ IF unpack_raises(years)
     THEN /\ raised' = "ValueError"
          /\ pc' = "crashed"
          /\ UNCHANGED params_filter
     ELSE /\ params_filter' = build_filter(years)
          /\ pc' = "search"
          /\ UNCHANGED raised
  /\ UNCHANGED <<inputs, out, cursor, page_no,
                 requests, failed_page, works, idx, seen_titles, clean,
                 doi_ok, prisma, title_keep, abs_keep, sources, bibliography,
                 sources_bulleted, attempt, outcome, raw_sections, sections,
                 context, evars, dvars>>

\* one iteration of the loop of lines 126-162 whose request succeeds; the
\* last iteration returns out to main(), which records prisma["initial"]
SearchPage ==
  /\ pc = "search"
  /\ LET next == ServerNextCursor(remote, cursor)
         out2 == out \o NormalizePage(ServerResults(remote, cursor))
         last == pagination_done(next, page_no + 1)
     IN /\ requests' = Append(requests, cursor)
        /\ out' = out2
        /\ cursor' = next
        /\ page_no' = page_no + 1
        /\ works' = IF last THEN out2 ELSE works
        /\ prisma' = IF last THEN ("initial" :> Len(out2)) ELSE prisma
        /\ pc' = IF last THEN "dedup" ELSE "search"
  /\ UNCHANGED <<inputs, params_filter, raised, failed_page, idx,
                 seen_titles, clean, doi_ok, title_keep, abs_keep, sources, bibliography,
                 sources_bulleted, attempt, outcome, raw_sections, sections,
                 context, evars, dvars>>

\* how one page request can fail before its body is parsed.  requests.get
\* (line 130) raises a class of requests.exceptions: ConnectionError,
\* Timeout, TooManyRedirects, ChunkedEncodingError, ContentDecodingError, or
\* another subclass of RequestException; raise_for_status (line 131) raises
\* HTTPError on a 4xx/5xx answer; r.json() (line 132) raises JSONDecodeError
\* on a body that is not JSON, RecursionError on one nested too deeply and
\* plain ValueError on one holding an integer of more digits than int()
\* converts; requests.get raises plain OSError when the CA bundle named by the
\* environment is missing.  Nothing in openalex_search or main() catches, so
\* whatever else these calls raise ends the run too: "Exception" stands for
\* any other class derived from it
RequestFailures ==
  {"ConnectionError", "Timeout", "TooManyRedirects", "ChunkedEncodingError",
   "ContentDecodingError", "RequestException", "HTTPError", "JSONDecodeError",
   "RecursionError", "ValueError", "OSError", "Exception"}

\* how it can fail on a body that is JSON of another shape (lines 133-160):
\* data, an item, a nested field or meta has no get, or results is no list
ShapeFailures == {"AttributeError", "TypeError", "Exception"}

PageFailures == RequestFailures \cup ShapeFailures

\* one iteration of the loop of lines 126-162 that raises: nothing in
\* openalex_search or main() catches the exception.  A failure on the shape
\* of the body comes after k items of the page went into out
SearchPageFails ==
  /\ pc = "search"
  /\ requests' = Append(requests, cursor)
  /\ page_no' = page_no + 1
  /\ failed_page' = page_no + 1
  /\ \/ /\ raised' \in RequestFailures
        /\ out' = out
     \/ /\ raised' \in ShapeFailures
        /\ \E k \in 0..Len(ServerResults(remote, cursor)) :
             out' = out \o NormalizePage(SubSeq(ServerResults(remote, cursor), 1, k))
  /\ pc' = "crashed"
  /\ UNCHANGED <<inputs, params_filter, cursor, works, idx,
                 seen_titles, clean, doi_ok, prisma, title_keep, abs_keep,
                 sources, bibliography, sources_bulleted, attempt, outcome,
                 raw_sections, sections, context, evars, dvars>>

\* lines 402-406: the Scholar backend; years is not used
ScholarSearch ==
  /\ pc = "start"
  /\ backend = "scholar"
  /\ works' = serpapi_scholar_search(serpapi_key, remote)
  /\ prisma' = ("initial" :> Len(works'))
  /\ pc' = "dedup"
  /\ UNCHANGED <<inputs, params_filter, raised, out, cursor, page_no,
                 requests, failed_page, idx, seen_titles, clean, doi_ok,
                 title_keep, abs_keep, sources, bibliography,
                 sources_bulleted, attempt, outcome, raw_sections, sections,
                 context, evars, dvars>>

\* how serpapi_scholar_search can fail once SERPAPI_KEY is set: the import
\* of line 175 raises ModuleNotFoundError without the package and
\* ImportError when the package has no GoogleSearch, search.get_dict()
\* (line 184) lets an exception of the service call or of the parsing of
\* its answer through, lines 186-201 raise on an answer of another shape;
\* nothing catches, and "Exception" stands for any other class derived from it
ScholarFailures ==
  {"ModuleNotFoundError", "ImportError", "ConnectionError", "Timeout",
   "RequestException", "JSONDecodeError", "RecursionError", "ValueError",
   "OSError", "AttributeError", "TypeError", "Exception"}

\* lines 402-404 when serpapi_scholar_search raises; nothing catches it
ScholarSearchFails ==
  /\ pc = "start"
  /\ backend = "scholar"
  /\ serpapi_key
  /\ raised' \in ScholarFailures
  /\ pc' = "crashed"
  /\ UNCHANGED <<inputs, params_filter, out, cursor, page_no, requests,
                 failed_page, works, idx, seen_titles, clean, doi_ok, prisma,
                 title_keep, abs_keep, sources, bibliography,
                 sources_bulleted, attempt, outcome, raw_sections, sections,
                 context, evars, dvars>>

\* one iteration of the loop of lines 411-429; the year of a record of
\* either backend is an int or None, which lines 425-428 leave as it is
DedupStep ==
  /\ pc = "dedup"
  /\ idx <= Len(works)
  /\ LET w == works[idx]
         title == title_key(w)
     IN IF title = <<>> \/ title \in seen_titles
        THEN UNCHANGED <<seen_titles, clean, doi_ok>>
        ELSE \E head_ok \in (IF w.doi # <<>> THEN BOOLEAN ELSE {FALSE}) :
               /\ seen_titles' = seen_titles \cup {title}
               /\ doi_ok' = IF verify_doi(w.doi, head_ok)
                            THEN doi_ok \cup {w} ELSE doi_ok
               /\ clean' = IF is_ok(w, head_ok) THEN Append(clean, w)
                           ELSE clean
  /\ idx' = idx + 1
  /\ UNCHANGED <<inputs, params_filter, pc, raised, out, cursor, page_no,
                 requests, failed_page, works, prisma, title_keep, abs_keep, sources,
                 bibliography, sources_bulleted, attempt, outcome,
                 raw_sections, sections, context, evars, dvars>>

\* lines 431-442
TitleScreen ==
  /\ pc = "dedup"
  /\ idx > Len(works)
  /\ title_keep' = title_screen(clean, topic_tokens(topic))
  /\ prisma' = prisma @@ ("deduped" :> Len(clean))
                      @@ ("screened_title" :> Len(title_keep'))
  /\ pc' = "abstract_screen"
  /\ UNCHANGED <<inputs, params_filter, raised, out, cursor, page_no,
                 requests, failed_page, works, idx, seen_titles, clean, doi_ok, abs_keep,
                 sources, bibliography, sources_bulleted, attempt, outcome,
                 raw_sections, sections, context, evars, dvars>>

\* lines 445-453
AbstractScreen ==
  /\ pc = "abstract_screen"
  /\ abs_keep' = abstract_screen(title_keep, topic_tokens(topic))
  /\ prisma' = prisma @@ ("screened_abstract" :> Len(abs_keep'))
  /\ pc' = "cap"
  /\ UNCHANGED <<inputs, params_filter, raised, out, cursor, page_no,
                 requests, failed_page, works, idx, seen_titles, clean, doi_ok, title_keep,
                 sources, bibliography, sources_bulleted, attempt, outcome,
                 raw_sections, sections, context, evars, dvars>>

\* lines 456-457
Cap ==
  /\ pc = "cap"
  /\ sources' = PySliceTo(abs_keep, max_sources)
  /\ prisma' = prisma @@ ("included_fulltext" :> Len(sources'))
  /\ pc' = "assemble"
  /\ UNCHANGED <<inputs, params_filter, raised, out, cursor, page_no,
                 requests, failed_page, works, idx, seen_titles, clean, doi_ok, title_keep,
                 abs_keep, bibliography, sources_bulleted, attempt, outcome,
                 raw_sections, sections, context, evars, dvars>>

\* lines 477-478
Assemble ==
  /\ pc = "assemble"
  /\ bibliography' = make_bibliography(sources)
  /\ sources_bulleted' = make_sources_bulleted(sources)
  /\ pc' = "writer"
  /\ UNCHANGED <<inputs, params_filter, raised, out, cursor, page_no,
                 requests, failed_page, works, idx, seen_titles, clean, doi_ok, prisma,
                 title_keep, abs_keep, sources, attempt, outcome,
                 raw_sections, sections, context, evars, dvars>>

\* what GeminiWriter.__init__ finds: google.generativeai imported and
\* GEMINI_API_KEY set, the module missing (genai is None), the key unset
WriterEnvs == {"ready", "no_genai", "no_key"}

\* line 481, GeminiWriter(args.model): lines 247-251 raise RuntimeError
\* without the module or the key, and nothing catches it
MakeWriter ==
  /\ pc = "writer"
  /\ \E env \in WriterEnvs :
       IF env = "ready"
       THEN pc' = "write" /\ UNCHANGED raised
       ELSE pc' = "crashed" /\ raised' = "RuntimeError"
  /\ UNCHANGED <<inputs, params_filter, out, cursor, page_no, requests,
                 failed_page, works, idx, seen_titles, clean, doi_ok, prisma,
                 title_keep, abs_keep, sources, bibliography,
                 sources_bulleted, attempt, outcome, raw_sections, sections,
                 context, evars, dvars>>

\* one call of the generation service raises exc.  tenacity re-raises it
\* when the retry predicate rejects it, retries until stop_after_attempt
\* otherwise and then raises RetryError; write_section and main() catch
\* neither
GenerateRaises ==
  /\ pc = "write"
  /\ attempt' = attempt + 1
  /\ outcome' = "raised"
  /\ \E exc \in ServiceExceptions :
       IF ~retry_if_exception_type(exc)
       THEN raised' = exc /\ pc' = "crashed"
       ELSE IF stop_after_attempt(attempt + 1)
            THEN raised' = "RetryError" /\ pc' = "crashed"
            ELSE UNCHANGED <<raised, pc>>
  /\ UNCHANGED <<inputs, params_filter, out, cursor, page_no, requests, failed_page,
                 works, idx, seen_titles, clean, doi_ok, prisma, title_keep,
                 abs_keep, sources, bibliography, sources_bulleted,
                 raw_sections, sections, context, evars, dvars>>

\* one call of the generation service returns txt: generate returns it,
\* write_section enforces citation integrity and main() keeps the section
GenerateReturns ==
  /\ pc = "write"
  /\ outcome' = "returned"
  /\ IF retry_if_exception_type("returned") /\ ~stop_after_attempt(attempt + 1)
     THEN /\ attempt' = attempt + 1
          /\ UNCHANGED <<raw_sections, sections, pc>>
     ELSE /\ attempt' = 0
          /\ \E txt \in GenTexts :
               /\ raw_sections' = Append(raw_sections, txt)
               /\ sections' = Append(sections, write_section(txt, bibliography))
          /\ pc' = IF Len(sections) + 1 = Len(SectionTitles)
                   THEN "render" ELSE "write"
  /\ UNCHANGED <<inputs, params_filter, raised, out, cursor, page_no,
                 requests, failed_page, works, idx, seen_titles, clean, doi_ok, prisma,
                 title_keep, abs_keep, sources, bibliography,
                 sources_bulleted, context, evars, dvars>>

\* lines 511-526: main() builds the template context and renders it.  The
\* template calls enumerate(...), which is not a Jinja global, so render
\* raises UndefinedError and paper.md is never written.
Render ==
  /\ pc = "render"
  /\ context' = <<[sections |-> sections, bibliography |-> bibliography,
                   prisma |-> prisma]>>
  /\ raised' = "UndefinedError"
  /\ pc' = "crashed"
  /\ UNCHANGED <<inputs, params_filter, out, cursor, page_no,
                 requests, failed_page, works, idx, seen_titles, clean,
                 doi_ok, prisma, title_keep, abs_keep, sources, bibliography,
                 sources_bulleted, attempt, outcome, raw_sections, sections,
                 evars, dvars>>

Next ==
  \/ BuildQuery
  \/ SearchPage
  \/ SearchPageFails
  \/ ScholarSearch
  \/ ScholarSearchFails
  \/ DedupStep
  \/ TitleScreen
  \/ AbstractScreen
  \/ Cap
  \/ Assemble
  \/ MakeWriter
  \/ GenerateRaises
  \/ GenerateReturns
  \/ Render

Spec == Init /\ [][Next]_vars

\* ------------------------------------------- the dedup stage on its own
\* the resolver's answers of one pass, per DOI
PoolDois == { it.doi : it \in Pool } \ {<<>>}

Resolvers == [PoolDois -> BOOLEAN]

HeadOk(w, head) == IF w.doi # <<>> THEN head[w.doi] ELSE FALSE

\* lines 409-429 from record i on, seen and cl being seen_titles and clean
RECURSIVE DedupLoop(_, _, _, _, _)
DedupLoop(ws, i, seen, cl, head) ==
  IF i > Len(ws) THEN cl
  ELSE LET w == ws[i]
           title == title_key(w)
       IN IF title = <<>> \/ title \in seen
          THEN DedupLoop(ws, i + 1, seen, cl, head)
          ELSE DedupLoop(ws, i + 1, seen \cup {title},
                         IF is_ok(w, HeadOk(w, head)) THEN Append(cl, w)
                         ELSE cl,
                         head)

\* a dedup loop that starts at the second record
dedup_pass_skips_first(ws, head) == DedupLoop(ws, 2, {}, <<>>, head)

\* lines 409-429: clean for the list ws
dedup_pass(ws, head) == DedupLoop(ws, 1, {}, <<>>, head)

DedupInputs == { NormalizePage(l) : l \in SmallLists }

DedupInit ==
  /\ d_in \in DedupInputs
  /\ head1 \in Resolvers
  /\ head2 \in Resolvers
  /\ d_out1 = <<>>
  /\ d_out2 = <<>>
  /\ verify_flag = TRUE
  /\ verdicts = <<>>
  /\ head_requests = 0
  /\ dpc = "input"
  /\ MainIdle
  /\ EnforceIdle

DedupOnce ==
  /\ dpc = "input"
  /\ d_out1' = dedup_pass(d_in, head1)
  /\ dpc' = "once"
  /\ UNCHANGED <<d_in, head1, head2, d_out2, verify_flag, verdicts,
                 head_requests, evars, mvars>>

DedupTwice ==
  /\ dpc = "once"
  /\ d_out2' = dedup_pass(d_out1, head2)
  /\ dpc' = "twice"
  /\ UNCHANGED <<d_in, head1, head2, d_out1, verify_flag, verdicts,
                 head_requests, evars, mvars>>

DedupNext == DedupOnce \/ DedupTwice

SpecDedup == DedupInit /\ [][DedupNext]_vars

\* --------------------------------- the validity check with its verify flag
\* The flag that switches live DOI verification off is not in the sources
\* at hand; it follows section 4.3 of the specification.

\* a validity check that ignores the flag
is_valid_always_verifies(w, verify, head_ok) == is_ok(w, head_ok)

\* is_valid(source): with verification on, the verdict of lines 417-422; with
\* verification off, any non-empty DOI string is accepted
is_valid(w, verify, head_ok) ==
  IF verify THEN is_ok(w, head_ok)
  ELSE w.doi # <<>> \/ has_valid_url(w)

\* a HEAD request goes to the resolver for this record
head_request_sent(w, verify) == verify /\ w.doi # <<>>

ValidityInit ==
  /\ d_in \in DedupInputs
  /\ head1 \in Resolvers
  /\ head2 = <<>>
  /\ d_out1 = <<>>
  /\ d_out2 = <<>>
  /\ verify_flag \in BOOLEAN
  /\ verdicts = <<>>
  /\ head_requests = 0
  /\ dpc = "input"
  /\ MainIdle
  /\ EnforceIdle

\* every record of the list is checked once
ValidateAll ==
  /\ dpc = "input"
  /\ verdicts' = [i \in 1..Len(d_in) |->
                    is_valid(d_in[i], verify_flag, HeadOk(d_in[i], head1))]
  /\ head_requests' =
       Cardinality({ i \in 1..Len(d_in) : head_request_sent(d_in[i], verify_flag) })
  /\ dpc' = "checked"
  /\ UNCHANGED <<d_in, head1, head2, d_out1, d_out2, verify_flag, evars, mvars>>

ValidityNext == ValidateAll

SpecValidity == ValidityInit /\ [][ValidityNext]_vars

\* ------------------------------------------ the enforcer as a pure function
EnforceChars == {"[", "]", "0", "1", "a"}

EnforceTexts == UNION { [1..k -> EnforceChars] : k \in 0..MaxTextLen }

\* longer texts, built from whole markers and single characters
MaxPieces == 5

EnforcePieces ==
  { <<"[">>, <<"]">>, <<"0">>, <<"1">>, <<"[", "0", "]">>, <<"[", "1", "]">> }

RECURSIVE Flatten(_)
Flatten(ps) == IF ps = <<>> THEN <<>> ELSE ps[1] \o Flatten(Tail(ps))

PieceTexts ==
  { Flatten(ps) : ps \in UNION { [1..k -> EnforcePieces] : k \in 0..MaxPieces } }

EnforceInit ==
  /\ text \in EnforceTexts \cup PieceTexts
  /\ n_sources \in 0..MaxN
  /\ fixed = <<>>
  /\ fixed2 = <<>>
  /\ epc = "input"
  /\ MainIdle
  /\ DedupIdle

Enforce ==
  /\ epc = "input"
  /\ fixed' = enforce_citation_integrity(text, n_sources)
  /\ epc' = "once"
  /\ UNCHANGED <<text, n_sources, fixed2, mvars, dvars>>

EnforceAgain ==
  /\ epc = "once"
  /\ fixed2' = enforce_citation_integrity(fixed, n_sources)
  /\ epc' = "twice"
  /\ UNCHANGED <<text, n_sources, fixed, mvars, dvars>>

EnforceNext == Enforce \/ EnforceAgain

SpecEnforce == EnforceInit /\ [][EnforceNext]_vars

\* C1: after enforce, every remaining marker [digits] denotes k with
\* 1 <= k <= n_sources
CitationSafety ==
  epc # "input" => \A k \in MarkerInts(fixed) : 1 <= k /\ k <= n_sources

\* C2: enforce(enforce(t, n), n) = enforce(t, n)
EnforcerIdempotence ==
  epc = "twice" => fixed2 = fixed

\* ------------------------------------------------------- funnel properties
CounterOrder ==
  <<"initial", "deduped", "screened_title", "screened_abstract",
    "included_fulltext">>

AllCounters == { CounterOrder[i] : i \in 1..Len(CounterOrder) }

\* the title-screen escape hatch fired and put back an off-topic record
HatchRestored ==
  /\ "screened_title" \in DOMAIN prisma
  /\ title_keep = clean
  /\ \E i \in 1..Len(clean) :
       ~AnyTokenIn(topic_tokens(topic), Lower(clean[i].title))

\* C3: the counters recorded so far satisfy
\* initial >= deduped >= screened_title >= screened_abstract >=
\* included_fulltext >= 0
FunnelMonotonicity ==
  \A i \in 1..Len(CounterOrder) :
    CounterOrder[i] \in DOMAIN prisma =>
      /\ prisma[CounterOrder[i]] >= 0
      /\ i > 1 => /\ CounterOrder[i - 1] \in DOMAIN prisma
                  /\ prisma[CounterOrder[i - 1]] >= prisma[CounterOrder[i]]

FunnelMonotonicityWitness ==
  /\ DOMAIN prisma = AllCounters
  /\ HatchRestored
  /\ prisma["screened_title"] > prisma["screened_abstract"]

\* the record's DOI check succeeded, or it carries a url / oa_pdf_url
ValidAtCheck(w) ==
  w \in doi_ok \/ w.url # <<>> \/ w.oa_pdf_url # <<>>

AllValid(l) == \A i \in 1..Len(l) : ValidAtCheck(l[i])

\* C4: no stage after dedup holds a record that failed the validity check,
\* and every bibliography entry is rendered from such a record
ValidityGating ==
  /\ AllValid(title_keep)
  /\ AllValid(abs_keep)
  /\ AllValid(sources)
  /\ Len(bibliography) <= Len(sources)
  /\ \A k \in 1..Len(bibliography) : bibliography[k].title = sources[k].title

ValidityGatingWitness ==
  /\ pc = "write"
  /\ HatchRestored
  /\ Len(bibliography) >= 1
  /\ \E i \in 1..Len(works) :
       /\ Strip(works[i].title) # <<>>
       /\ ~ValidAtCheck(works[i])

\* C5: a failed page request does not raise out of openalex_search, which
\* returns the records of the pages before it
RetrieverErrorPolicy ==
  failed_page # 0 =>
    /\ raised = ""
    /\ pc # "crashed"
    /\ Len(requests) = failed_page
    /\ works = out

\* C6: exhausting the retries of one section does not abort the run
ExhaustedRetryIsolation ==
  (attempt = MaxAttempts /\ outcome = "raised") =>
    /\ pc # "crashed"
    /\ raised = ""

\* C7: at most 5 service calls per generate call; a further attempt only
\* after an attempt that raised; a returning attempt ends the call and
\* delivers its text; a fifth raise ends the call in an error
BoundedRetry ==
  /\ [](attempt <= 5)
  /\ [][(attempt >= 1 /\ attempt' = attempt + 1) => outcome = "raised"]_vars
  /\ [][(pc = "write" /\ outcome' = "returned") =>
          /\ attempt' = 0
          /\ Len(raw_sections') = Len(raw_sections) + 1
          /\ raw_sections'[Len(raw_sections')] \in GenTexts]_vars
  /\ []((attempt = 5 /\ outcome = "raised") =>
          /\ pc = "crashed"
          /\ raised \in {"RetryError"} \cup NonExceptions)

BoundedRetryWitness ==
  /\ attempt = 5
  /\ outcome = "raised"
  /\ raised = "RetryError"
  /\ Len(sections) >= 1

\* C8: the k-th bibliography entry and the line labelled [k] of the
\* citable-sources list are both built from sources[k], and both lists have
\* len(sources) entries
BibliographyIndexStability ==
  pc \in {"writer", "write", "render"} =>
    /\ Len(bibliography) = Len(sources)
    /\ Len(sources_bulleted) = Len(sources)
    /\ \A k \in 1..Len(sources) :
         /\ bibliography[k].title = sources[k].title
         /\ bibliography[k].ven = sources[k].venue
         /\ sources_bulleted[k].label = k
         /\ sources_bulleted[k].title = sources[k].title
         /\ sources_bulleted[k].link = bibliography[k].link

BibliographyIndexStabilityWitness ==
  /\ pc = "write"
  /\ Len(sources) >= 2
  /\ sources[1].title # sources[2].title

GenerationStarted == attempt >= 1 \/ raw_sections # <<>>

\* C9: bibliography and counters are complete before the first generation
\* call and never change afterwards; every section text handed to the
\* template is enforce(raw text, len(bibliography))
FreezeThenGenerate ==
  /\ [](GenerationStarted =>
          /\ DOMAIN prisma = AllCounters
          /\ Len(bibliography) = prisma["included_fulltext"])
  /\ [][GenerationStarted =>
          /\ bibliography' = bibliography
          /\ sources_bulleted' = sources_bulleted
          /\ prisma' = prisma]_vars
  /\ [](context # <<>> =>
          /\ context[1].bibliography = bibliography
          /\ Len(context[1].sections) = Len(SectionTitles)
          /\ \A s \in 1..Len(context[1].sections) :
               context[1].sections[s] =
                 StripInvalid(raw_sections[s],
                              MarkerInts(raw_sections[s])
                                \ (1..Len(context[1].bibliography))))

FreezeThenGenerateWitness ==
  /\ context # <<>>
  /\ Len(context[1].bibliography) = 1
  /\ \E s \in 1..Len(context[1].sections) :
       /\ context[1].sections[s] # raw_sections[s]
       /\ context[1].sections[s] # <<>>

\* equality of titles ignoring case, after trimming
DedupKey(w) == Lower(Strip(w.title))

FirstOccurrence(i) ==
  \A j \in 1..(i - 1) : DedupKey(works[j]) # DedupKey(works[i])

RECURSIVE Restrict(_, _, _)
Restrict(l, I, i) ==
  IF i > Len(l) THEN <<>>
  ELSE (IF i \in I THEN <<l[i]>> ELSE <<>>) \o Restrict(l, I, i + 1)

\* C10: the deduped list is the raw list restricted, in order, to the
\* records with a non-empty title that are the first occurrence of their
\* title ignoring case and are valid; no two of its records share a title
DedupStage ==
  "deduped" \in DOMAIN prisma =>
    /\ clean = Restrict(works,
                        { i \in 1..Len(works) :
                            /\ DedupKey(works[i]) # <<>>
                            /\ FirstOccurrence(i)
                            /\ ValidAtCheck(works[i]) }, 1)
    /\ \A i, j \in 1..Len(clean) :
         DedupKey(clean[i]) = DedupKey(clean[j]) => i = j
    /\ prisma["deduped"] = Len(clean)

\* an invalid first occurrence hides a valid later duplicate
DedupStageWitness ==
  /\ "deduped" \in DOMAIN prisma
  /\ \E i, j \in 1..Len(works) :
       /\ i < j
       /\ DedupKey(works[i]) = DedupKey(works[j])
       /\ DedupKey(works[i]) # <<>>
       /\ ~ValidAtCheck(works[i])
       /\ works[j].url # <<>>
       /\ \A k \in 1..Len(clean) : DedupKey(clean[k]) # DedupKey(works[i])

\* the topic's pieces between whitespace, commas and semicolons that are
\* longer than 2 characters, lowercased
TopicPieces ==
  { Lower(SubSeq(topic, ij[1], ij[2])) :
      ij \in { p \in (1..Len(topic)) \X (1..Len(topic)) :
                 /\ p[2] - p[1] + 1 > 2
                 /\ \A k \in p[1]..p[2] : topic[k] \notin Seps
                 /\ p[1] > 1 => topic[p[1] - 1] \in Seps
                 /\ p[2] < Len(topic) => topic[p[2] + 1] \in Seps } }

OnTopic(s) == \E tok \in TopicPieces : Contains(Lower(s), tok)

TitleMatches == { i \in 1..Len(clean) : OnTopic(clean[i].title) }

\* C11: with N deduped records of which M match the topic, the title screen
\* passes all N when M < max(10, 0.3 * N) and exactly the M matches otherwise
\* (10 * M < max(100, 3 * N) is the same comparison without fractions)
EscapeHatchExactThreshold ==
  "screened_title" \in DOMAIN prisma =>
    IF 10 * Cardinality(TitleMatches) < PyMax(100, 3 * Len(clean))
    THEN title_keep = clean
    ELSE title_keep = Restrict(clean, TitleMatches, 1)

\* C12: a run whose funnel ends with no source makes no generation call
NoSourcesNoGeneration ==
  ("included_fulltext" \in DOMAIN prisma /\ sources = <<>>) =>
    /\ attempt = 0
    /\ outcome = "none"
    /\ raw_sections = <<>>

IsYear(s) == s # <<>> /\ \A i \in 1..Len(s) : s[i] \in Digits

\* the year range has the form start-end
WellFormedRange(yrs) ==
  \E i \in 1..Len(yrs) :
    /\ yrs[i] = "-"
    /\ IsYear(SubSeq(yrs, 1, i - 1))
    /\ IsYear(SubSeq(yrs, i + 1, Len(yrs)))

\* C13: a malformed year range does not raise and adds no publication-date
\* filter; the search is still performed
MalformedYearsIgnored ==
  (years # <<>> /\ ~WellFormedRange(years)) =>
    /\ raised # "ValueError"
    /\ pc # "start" =>
         \A i \in 1..Len(params_filter) : params_filter[i].key = "type"

RECURSIVE PagesFetched(_)
PagesFetched(n) ==
  IF n = 0 THEN <<>>
  ELSE PagesFetched(n - 1) \o NormalizePage(ServerResults(remote, requests[n]))

\* C14: at most max_pages requests; the first with the initial cursor, each
\* later one with the next_cursor of the response before it; none after a
\* missing next_cursor; the result is the pages fetched, concatenated in order
BoundedCursorPagination ==
  /\ Len(requests) <= MainMaxPages
  /\ requests # <<>> => requests[1] = InitialCursor
  /\ \A i \in 1..(Len(requests) - 1) :
       /\ requests[i + 1] # NoCursor
       /\ requests[i + 1] = ServerNextCursor(remote, requests[i])
  /\ (backend = "openalex" /\ failed_page = 0 /\ "initial" \in DOMAIN prisma) =>
       /\ works = PagesFetched(Len(requests))
       /\ prisma["initial"] = Len(works)
       /\ \/ Len(requests) = MainMaxPages
          \/ ServerNextCursor(remote, requests[Len(requests)]) = NoCursor

\* the server had more pages than max_pages
BoundedCursorPaginationWitness ==
  /\ pc = "dedup"
  /\ Len(remote) > MainMaxPages
  /\ Len(requests) = MainMaxPages
  /\ Len(works) = MainMaxPages
  /\ cursor # NoCursor

\* the in-range markers of t, in order of appearance
\* the first position from i on that holds no digit
RECURSIVE DigitRunEnd(_, _)
DigitRunEnd(t, i) ==
  IF i <= Len(t) /\ t[i] \in Digits THEN DigitRunEnd(t, i + 1) ELSE i

RECURSIVE ValidMarkerSeq(_, _, _)
ValidMarkerSeq(t, n, i) ==
  IF i > Len(t) THEN <<>>
  ELSE LET j == DigitRunEnd(t, i + 1)
       IN IF t[i] = "[" /\ j > i + 1 /\ j <= Len(t) /\ t[j] = "]"
          THEN LET k == ParseInt(SubSeq(t, i + 1, j - 1))
               IN (IF 1 <= k /\ k <= n THEN <<k>> ELSE <<>>)
                    \o ValidMarkerSeq(t, n, j + 1)
          ELSE ValidMarkerSeq(t, n, i + 1)

OutOfRangeSpans(t, n) ==
  { ij \in MarkerSpans(t) :
      LET k == ParseInt(SubSeq(t, ij[1] + 1, ij[2] - 1)) IN k < 1 \/ k > n }

\* t without the characters covered by the spans of D
DeleteSpans(t, D) ==
  LET Kept(i) == \A ij \in D : i < ij[1] \/ i > ij[2]
      RECURSIVE Keep(_)
      Keep(i) == IF i > Len(t) THEN <<>>
                 ELSE (IF Kept(i) THEN <<t[i]>> ELSE <<>>) \o Keep(i + 1)
  IN Keep(1)

\* every in-range marker of the input appears in the output as often and in
\* the same relative order
KeepsInRangeMarkers(t, res, n) ==
  LET before == ValidMarkerSeq(t, n, 1)
      InInput(k) == \E i \in 1..Len(before) : before[i] = k
  IN SelectSeq(ValidMarkerSeq(res, n, 1), InInput) = before

\* the output is the input with some of its out-of-range markers deleted:
\* every character that is part of no out-of-range marker is preserved
KeepsOtherCharacters(t, res, n) ==
  \E D \in SUBSET OutOfRangeSpans(t, n) : res = DeleteSpans(t, D)

IsMarkerAt(t, i, j) ==
  t[i] = "[" /\ j > i + 1 /\ j <= Len(t) /\ t[j] = "]"

\* whether the marker of t from i to j is out of range and written as
\* str(int) writes it, which is what the patterns of line 376 match in t
IsPlainOutOfRange(t, n, i, j) ==
  LET ds == SubSeq(t, i + 1, j - 1)
      k == ParseInt(ds)
  IN (k < 1 \/ k > n) /\ ds = IntToStr(k)

\* the number of markers of t from position i on
RECURSIVE MarkerCount(_, _)
MarkerCount(t, i) ==
  IF i > Len(t) THEN 0
  ELSE LET j == DigitRunEnd(t, i + 1)
       IN IF IsMarkerAt(t, i, j) THEN 1 + MarkerCount(t, j + 1)
          ELSE MarkerCount(t, i + 1)

\* the number of those that are out of range and plainly written
RECURSIVE PlainOutOfRangeCount(_, _, _)
PlainOutOfRangeCount(t, n, i) ==
  IF i > Len(t) THEN 0
  ELSE LET j == DigitRunEnd(t, i + 1)
       IN IF IsMarkerAt(t, i, j)
          THEN (IF IsPlainOutOfRange(t, n, i, j) THEN 1 ELSE 0)
                 + PlainOutOfRangeCount(t, n, j + 1)
          ELSE PlainOutOfRangeCount(t, n, i + 1)

\* t from position i on without them
RECURSIVE DeletePlainOutOfRange(_, _, _)
DeletePlainOutOfRange(t, n, i) ==
  IF i > Len(t) THEN <<>>
  ELSE LET j == DigitRunEnd(t, i + 1)
       IN IF IsMarkerAt(t, i, j) /\ IsPlainOutOfRange(t, n, i, j)
          THEN DeletePlainOutOfRange(t, n, j + 1)
          ELSE <<t[i]>> \o DeletePlainOutOfRange(t, n, i + 1)

\* deleting those markers joins no characters into a new marker
NoJoin(t, n) ==
  MarkerCount(DeletePlainOutOfRange(t, n, 1), 1)
    = MarkerCount(t, 1) - PlainOutOfRangeCount(t, n, 1)

DedupIdempotence ==
  dpc = "twice" => d_out2 = d_out1

\* C16: dedup applied to its own output returns that output when the
\* resolver gives each DOI the same answer in both passes
DedupIdempotenceFixedVerdict ==
  (dpc = "twice" /\ \A doi \in PoolDois : head1[doi] = head2[doi]) =>
    d_out2 = d_out1

\* the first pass dropped something and kept a record that is valid only
\* through its DOI
DedupIdempotenceWitness ==
  /\ dpc = "twice"
  /\ head1 = head2
  /\ d_out1 # d_in
  /\ \E i \in 1..Len(d_out1) :
       /\ d_out1[i].url = <<>>
       /\ d_out1[i].oa_pdf_url = <<>>
  /\ d_out2 = d_out1

\* C17: with the verify flag off, every record with a non-empty DOI is valid
\* and no request goes to the resolver
SkippableVerification ==
  (dpc = "checked" /\ ~verify_flag) =>
    /\ head_requests = 0
    /\ \A i \in 1..Len(d_in) : d_in[i].doi # <<>> => verdicts[i]

\* a record with nothing but a DOI the resolver would reject
SkippableVerificationWitness ==
  /\ dpc = "checked"
  /\ ~verify_flag
  /\ \E i \in 1..Len(d_in) :
       /\ d_in[i].doi # <<>>
       /\ d_in[i].url = <<>>
       /\ d_in[i].oa_pdf_url = <<>>
       /\ ~head1[d_in[i].doi]
       /\ verdicts[i]

AbstractSurvivors ==
  { i \in 1..Len(title_keep) :
      title_keep[i].abstract = <<>> \/ OnTopic(title_keep[i].abstract) }

\* C18: a record of the title screen's output survives the abstract screen
\* iff it has no abstract or its lowercased abstract contains a topic token;
\* order is kept; without any token exactly the records without abstract
\* survive
AbstractScreenExact ==
  "screened_abstract" \in DOMAIN prisma =>
    /\ abs_keep = Restrict(title_keep, AbstractSurvivors, 1)
    /\ prisma["screened_abstract"] = Len(abs_keep)
    /\ TopicPieces = {} =>
         abs_keep = Restrict(title_keep,
                             { i \in 1..Len(title_keep) :
                                 title_keep[i].abstract = <<>> }, 1)

\* a topic without token: a record with an abstract is dropped, one without
\* is kept
AbstractScreenWitness ==
  /\ "screened_abstract" \in DOMAIN prisma
  /\ TopicPieces = {}
  /\ abs_keep # <<>>
  /\ \E i \in 1..Len(title_keep) :
       /\ title_keep[i].abstract # <<>>
       /\ \A k \in 1..Len(abs_keep) : abs_keep[k] # title_keep[i]

PyMin(a, b) == IF a <= b THEN a ELSE b

\* C19: the final list is the first min(max_sources, screened_abstract)
\* records of the abstract screen's output, so it has at most max_sources
\* records
CapExact ==
  "included_fulltext" \in DOMAIN prisma =>
    /\ sources = SubSeq(abs_keep, 1, PyMin(max_sources, Len(abs_keep)))
    /\ prisma["included_fulltext"] = Len(sources)
    /\ prisma["included_fulltext"] <= max_sources

HasPrefix(s, pre) == Len(s) >= Len(pre) /\ SubSeq(s, 1, Len(pre)) = pre

HasSuffix(s, suf) ==
  Len(s) >= Len(suf) /\ SubSeq(s, Len(s) - Len(suf) + 1, Len(s)) = suf

\* link is the resolver URL of this DOI
IsDoiUrlOf(link, doi) ==
  /\ HasPrefix(link, DoiPrefixHttps)
  /\ HasSuffix(Lower(doi), SubSeq(link, Len(DoiPrefixHttps) + 1, Len(link)))
  /\ ~HasPrefix(SubSeq(link, Len(DoiPrefixHttps) + 1, Len(link)), <<"h">>)

\* C20 as stated: the rendered link is non-empty and is the locator that
\* passed the validity check: the DOI URL only when the DOI resolved,
\* otherwise the url / oa_pdf_url
RenderedLinkVerified ==
  \A k \in 1..Len(bibliography) :
    /\ bibliography[k].link # <<>>
    /\ IF sources[k] \in doi_ok
       THEN IsDoiUrlOf(bibliography[k].link, sources[k].doi)
       ELSE bibliography[k].link \in {sources[k].url, sources[k].oa_pdf_url}

\* what make_bibliography renders: the link is non-empty; it is the DOI URL
\* whenever the source has a DOI string, resolved or not, and otherwise the
\* url, or the oa_pdf_url when there is no url
RenderedLinkPrefersDoi ==
  \A k \in 1..Len(bibliography) :
    /\ bibliography[k].link # <<>>
    /\ IF sources[k].doi # <<>>
       THEN IsDoiUrlOf(bibliography[k].link, sources[k].doi)
       ELSE bibliography[k].link =
              (IF sources[k].url # <<>> THEN sources[k].url
               ELSE sources[k].oa_pdf_url)

\* a source admitted through its URL whose DOI did not resolve
RenderedLinkWitness ==
  /\ pc = "write"
  /\ \E k \in 1..Len(bibliography) :
       /\ sources[k].doi # <<>>
       /\ sources[k] \notin doi_ok
       /\ sources[k].oa_pdf_url # <<>>
       /\ IsDoiUrlOf(bibliography[k].link, sources[k].doi)

====
